---- MODULE Spec2Model ----
(***************************************************************************)
(* Model of the fetch / normalise / cache layer of the Streamlit market    *)
(* dashboard: src/streamlit_app.py, src/pages/Crypto_Prices.py and         *)
(* src/pages/Crypto_Stocks.py.                                             *)
(*                                                                         *)
(* Five specifications share the module:                                   *)
(*   Spec          sessions resolving one @st.cache_data function          *)
(*                 concurrently (cache hit / miss, per-key compute lock,   *)
(*                 TTL expiry against the wall clock);                     *)
(*   SpecFetch     the bodies of the seven fetch functions applied to      *)
(*                 every upstream outcome of a bounded set;                *)
(*   SpecDispatch  the "-USD" symbol dispatch of av_fetch_daily_series     *)
(*                 applied to every symbol string of a bounded length;     *)
(*   SpecStocks    one render of pages/Crypto_Stocks.py, top to bottom.    *)
(*   SpecHistory   successive runs of streamlit_app.py calling the cached  *)
(*                 fetch_history with dates derived from the clock.        *)
(***************************************************************************)
EXTENDS Integers, Sequences, FiniteSets, TLC

VARIABLES
    \* ---- Spec: the cache of one decorated function, shared by sessions
    fn,         \* the decorated function this cache belongs to
    cache,      \* value key -> entry [value, expiresAt]
    lock,       \* value key -> session holding its compute_value_lock, or 0
    now,        \* wall clock, in seconds
    calls,      \* value key -> upstream requests issued for it so far
    pc,         \* session -> "idle" | "waiting" | "computing"
    req,        \* session -> arguments of the call in progress
    ret,        \* outcome of the call that finished in the last step
    joined,     \* session -> its call missed while the same key was computing
    \* ---- SpecFetch / SpecDispatch: one application of a function body
    fPhase,     \* "ready" | "done"
    fFn,        \* function applied
    fArgs,      \* its arguments
    fResp,      \* the upstream outcome it met
    fResult,    \* what it returned or raised
    \* ---- SpecStocks: one run of the Crypto_Stocks page script
    secrets,    \* state of the Streamlit secrets store
    environ,    \* value of ALPHAVANTAGE_API_KEY in os.environ
    assets,     \* the multiselect's selection, in order
    days_back,  \* the time-range radio
    pagePc,     \* position of the script
    API_KEY,    \* module-level API_KEY
    warned,     \* the missing-key st.warning was shown
    idx,        \* loop index into assets
    series_by_asset, \* sequence of [asset, df]
    snapRows,   \* rows of the snapshot table
    avRequests, \* upstream requests sent to the key-gated provider
    shown       \* what the page's bottom section rendered

cacheVars == <<fn, cache, lock, now, calls, pc, req, ret, joined>>
fetchVars == <<fPhase, fFn, fArgs, fResp, fResult>>
pageVars  == <<secrets, environ, assets, days_back, pagePc, API_KEY, warned, idx,
               series_by_asset, snapRows, avRequests, shown>>
vars == <<cacheVars, fetchVars, pageVars>>

(***************************************************************************)
(* Bounds of the model.                                                    *)
(***************************************************************************)
MaxSessions == 2      \* concurrent sessions
MaxCalls    == 2      \* upstream requests per key
MaxTime     == 900    \* last clock value, seconds
MaxSymLen   == 7      \* characters of a symbol string
MaxBars     == 3      \* rows of an upstream time series
MaxDay      == 3      \* distinct calendar days / timestamps
MaxClose    == 2      \* largest price value

(***************************************************************************)
(* Floats.  A float is a record: a finite value n/d in lowest terms, NaN,  *)
(* or a signed infinity.  Python's float and numpy.float64 agree on these  *)
(* except for division by zero, which numpy (the type of a DataFrame cell) *)
(* answers with inf or nan and a warning.                                  *)
(***************************************************************************)
NaN    == [k |-> "nan",  n |-> 0, d |-> 1]
PosInf == [k |-> "inf",  n |-> 1, d |-> 1]
NegInf == [k |-> "inf",  n |-> -1, d |-> 1]
None   == [k |-> "none", n |-> 0, d |-> 1]

Abs(x) == IF x < 0 THEN -x ELSE x

RECURSIVE GCD(_, _)
GCD(a, b) == IF b = 0 THEN a ELSE GCD(b, a % b)

Rat(n, d) ==
    LET g == GCD(Abs(n), Abs(d))
        s == IF d < 0 THEN -1 ELSE 1
    IN  [k |-> "num", n |-> (s * n) \div g, d |-> (s * d) \div g]

Num(x) == [k |-> "num", n |-> x, d |-> 1]

isnan(x) == x.k = "nan"

FSub(a, b) ==
    IF a.k = "nan" \/ b.k = "nan" THEN NaN
    ELSE IF a.k = "inf" /\ b.k = "inf"
         THEN (IF a.n = b.n THEN NaN ELSE a)
    ELSE IF a.k = "inf" THEN a
    ELSE IF b.k = "inf" THEN [b EXCEPT !.n = -b.n]
    ELSE Rat(a.n * b.d - b.n * a.d, a.d * b.d)

Sign(x) == IF x > 0 THEN 1 ELSE IF x < 0 THEN -1 ELSE 0

\* numpy.float64 division: x/0 is +-inf, 0/0 is nan, nothing raises.
FDiv(a, b) ==
    IF a.k = "nan" \/ b.k = "nan" THEN NaN
    ELSE IF a.k = "inf" /\ b.k = "inf" THEN NaN
    ELSE IF a.k = "inf"
         THEN (IF b.n < 0 THEN [a EXCEPT !.n = -a.n] ELSE a)
    ELSE IF b.k = "inf" THEN Num(0)
    ELSE IF b.n = 0
         THEN (IF a.n = 0 THEN NaN ELSE IF a.n > 0 THEN PosInf ELSE NegInf)
    ELSE Rat(a.n * b.d, a.d * b.n)

FMul(a, b) ==
    IF a.k = "nan" \/ b.k = "nan" THEN NaN
    ELSE IF a.k = "inf" \/ b.k = "inf"
         THEN (IF a.n = 0 \/ b.n = 0 THEN NaN
               ELSE IF Sign(a.n) = Sign(b.n) THEN PosInf ELSE NegInf)
    ELSE Rat(a.n * b.n, a.d * b.d)

\* a < b on dates and timestamps (plain integers)
RECURSIVE Insert(_, _)
Insert(row, sorted) ==
    IF sorted = <<>> THEN <<row>>
    ELSE IF row.Date < Head(sorted).Date THEN <<row>> \o sorted
    ELSE <<Head(sorted)>> \o Insert(row, Tail(sorted))

RECURSIVE SortRows(_)
SortRows(rows) ==
    IF rows = <<>> THEN <<>>
    ELSE Insert(rows[Len(rows)], SortRows(SubSeq(rows, 1, Len(rows) - 1)))

(***************************************************************************)
(* Data frames: the column names and the rows, in order.                   *)
(***************************************************************************)
CANON == <<"Date", "Open", "High", "Low", "Close", "Volume">>

Frame(columns, rows) == [columns |-> columns, rows |-> rows]

\* pd.DataFrame()
EmptyFrame == Frame(<<>>, <<>>)

\* pd.DataFrame(columns=["Date", "Open", "High", "Low", "Close", "Volume"])
EmptyCanon == Frame(CANON, <<>>)

\* df.empty
empty(df) == Len(df.rows) = 0 \/ Len(df.columns) = 0

Range(s) == {s[i] : i \in 1..Len(s)}

\* What a function call ends with: a value, or an exception leaving it.
Return(v) == [kind |-> "value", val |-> v, exc |-> "none"]
Raise(e)  == [kind |-> "raise", val |-> EmptyFrame, exc |-> e]

(***************************************************************************)
(* Strings are sequences of one-character strings, so that endswith and    *)
(* split are computed character by character.                              *)
(***************************************************************************)
HYPHEN == "-"
USD_SUFFIX == <<"-", "U", "S", "D">>

\* str.endswith
endswith(s, suffix) ==
    /\ Len(s) >= Len(suffix)
    /\ SubSeq(s, Len(s) - Len(suffix) + 1, Len(s)) = suffix

\* str.split(sep) for a one-character separator: every occurrence splits.
RECURSIVE split(_, _)
split(s, sep) ==
    IF \A i \in 1..Len(s) : s[i] # sep THEN <<s>>
    ELSE LET i == CHOOSE j \in 1..Len(s) :
                      s[j] = sep /\ \A h \in 1..(j - 1) : s[h] # sep
         IN  <<SubSeq(s, 1, i - 1)>> \o split(SubSeq(s, i + 1, Len(s)), sep)

(***************************************************************************)
(* av_fetch_daily_series, lines 42-49 and 63-69: the request the function  *)
(* builds for a symbol.  `crypto_symbol, market = symbol.split("-")`       *)
(* unpacks exactly two parts and raises ValueError on any other count; the *)
(* function's except clause turns that into the empty frame, before any    *)
(* request is sent ("none").                                               *)
(***************************************************************************)
av_params(symbol, api_key) ==
    IF endswith(symbol, USD_SUFFIX)
    THEN LET parts == split(symbol, HYPHEN)
         IN  IF Len(parts) = 2
             THEN [route |-> "crypto", function |-> "DIGITAL_CURRENCY_DAILY",
                   symbol |-> parts[1], market |-> parts[2], apikey |-> api_key]
             ELSE [route |-> "none", function |-> "ValueError",
                   symbol |-> <<>>, market |-> <<>>, apikey |-> api_key]
    ELSE [route |-> "equity", function |-> "TIME_SERIES_DAILY",
          symbol |-> symbol, market |-> <<>>, apikey |-> api_key]

(***************************************************************************)
(* Upstream outcomes.  requests.get raises on a timeout or a connection    *)
(* failure and returns a response for every status code (none of the       *)
(* functions calls raise_for_status); r.json() raises on a body that is    *)
(* not JSON and otherwise returns the decoded list or object.              *)
(***************************************************************************)
NetFailures == {"timeout", "connfail"}

\* requests.get(...) followed by r.json(): the decoded body, or the exception
HttpJson(resp) ==
    IF resp.net \in NetFailures THEN Raise(resp.net)
    ELSE IF resp.body.type = "nonjson" THEN Raise("JSONDecodeError")
    ELSE Return(resp.body)

\* A JSON string handed to float(): absent keys default to "nan".
Absent   == [t |-> "absent", v |-> 0]
NanStr   == [t |-> "nan", v |-> 0]
BadStr   == [t |-> "bad", v |-> 0]
NumStr(x) == [t |-> "num", v |-> x]

\* float(vals.get(key, "nan")) succeeds
floatOk(tok) == tok.t # "bad"
\* float(vals.get(key, "nan"))
float(tok) == IF tok.t = "num" THEN Num(tok.v) ELSE NaN

\* A date string: pd.to_datetime parses it or raises.
DateStr(day) == [ok |-> TRUE, day |-> day]
BadDate      == [ok |-> FALSE, day |-> 0]
to_datetime(ds) == ds.day

(***************************************************************************)
(* av_fetch_daily_series (Crypto_Stocks.py 38-86) without its cache.       *)
(* A body of type "object" carries one time series under the key named by  *)
(* tsKey ("crypto": "Time Series (Digital Currency Daily)", "equity":      *)
(* "Time Series (Daily)", "none": neither, e.g. a rate-limit note); each   *)
(* entry of the series has a date string and a dict of value strings whose *)
(* keys follow one of the two namings ("4a. close (USD)" / "4. close").    *)
(* "5. volume" is the same key in both.                                    *)
(***************************************************************************)
av_field(vals, route, name) ==
    IF name = "Volume" THEN vals.Volume
    ELSE IF vals.naming = route THEN vals[name] ELSE Absent

av_row(entry, route) ==
    [Date   |-> to_datetime(entry.date),
     Open   |-> IF route = "crypto" THEN NaN ELSE float(av_field(entry.vals, route, "Open")),
     High   |-> float(av_field(entry.vals, route, "High")),
     Low    |-> float(av_field(entry.vals, route, "Low")),
     Close  |-> float(av_field(entry.vals, route, "Close")),
     Volume |-> float(av_field(entry.vals, route, "Volume"))]

av_row_ok(entry, route) ==
    /\ entry.date.ok
    /\ \A name \in (IF route = "crypto" THEN {"High", "Low", "Close", "Volume"}
                    ELSE {"Open", "High", "Low", "Close", "Volume"}) :
           floatOk(av_field(entry.vals, route, name))

\* pd.DataFrame(rows).sort_values("Date"); KeyError when rows is empty,
\* because a frame built from no rows has no "Date" column.
sort_values(rows) ==
    IF rows = <<>> THEN Raise("KeyError")
    ELSE Return(Frame(CANON, SortRows(rows)))

av_try(symbol, api_key, resp) ==
    LET params == av_params(symbol, api_key)
        js     == HttpJson(resp)
    IN  IF params.route = "none" THEN Raise("ValueError")
        ELSE IF js.kind = "raise" THEN js
        ELSE IF js.val.type # "object" THEN Raise("AttributeError")
        ELSE LET ts == IF js.val.tsKey = params.route THEN js.val.series ELSE <<>>
             IN  IF \E i \in 1..Len(ts) : ~av_row_ok(ts[i], params.route)
                 THEN Raise("ValueError")
                 ELSE sort_values([i \in 1..Len(ts) |-> av_row(ts[i], params.route)])

av_fetch_daily_series(symbol, api_key, resp) ==
    LET r == av_try(symbol, api_key, resp)
    IN  IF r.kind = "raise" THEN Return(EmptyCanon) ELSE r

\* upstream requests one call of av_fetch_daily_series sends
av_requests(symbol, api_key) ==
    IF av_params(symbol, api_key).route = "none" THEN 0 ELSE 1

(***************************************************************************)
(* compute_snapshot_from_series (Crypto_Stocks.py 89-95).                  *)
(***************************************************************************)
compute_snapshot_from_series(df) ==
    IF empty(df) THEN [Current_Price |-> NaN, Pct_Change |-> NaN]
    ELSE LET last == df.rows[Len(df.rows)].Close
             prev == IF Len(df.rows) > 1 THEN df.rows[Len(df.rows) - 1].Close ELSE NaN
             pct  == IF ~isnan(prev)
                     THEN FMul(FDiv(FSub(last, prev), prev), Num(100))
                     ELSE NaN
         IN  [Current_Price |-> last, Pct_Change |-> IF ~isnan(pct) THEN pct ELSE NaN]

(***************************************************************************)
(* The five CoinGecko / alternative.me fetch functions of                  *)
(* pages/Crypto_Prices.py, without their caches.  A decoded body is a      *)
(* record: type "list" with its items and the keys its items carry, or     *)
(* type "object" with the set of its top-level keys.                       *)
(***************************************************************************)
CARD_COLUMNS == <<"id", "symbol", "name", "current_price",
                  "price_change_percentage_24h", "sparkline">>

\* line 39: x.get("price", []) if isinstance(x, dict) else []
sparkline_of(x) == IF x.isdict THEN x.price ELSE <<>>

card_row(item, columns) ==
    [id |-> item.id, symbol |-> item.symbol, name |-> item.name,
     current_price |-> item.current_price,
     price_change_percentage_24h |-> item.price_change_percentage_24h,
     sparkline |-> IF "sparkline_in_7d" \in columns
                   THEN sparkline_of(item.sparkline_in_7d) ELSE <<>>]

\* get_markets_for_cards (27-42).  pd.DataFrame(r.json()) has the keys of the
\* payload as columns (none for [] and {}); line 42 selects six columns and
\* raises KeyError when one of them is not a column.
get_markets_for_cards(ids, resp) ==
    LET js == HttpJson(resp)
    IN  IF js.kind = "raise" THEN js
        ELSE LET columns == js.val.keys \cup {"sparkline"}
                 items   == IF js.val.type = "list" THEN js.val.items ELSE <<>>
             IN  IF Range(CARD_COLUMNS) \subseteq columns
                 THEN Return(Frame(CARD_COLUMNS,
                          [i \in 1..Len(items) |-> card_row(items[i], js.val.keys)]))
                 ELSE Raise("KeyError")

\* js.get(key, default) on a decoded object
json_get(obj, key, default) == IF key \in obj.keys THEN obj[key] ELSE default

\* rows of pd.merge(df_p, df_m, on="ts", how="left") for one row of df_p:
\* one row per row of df_m with the same ts, in df_m's order, or one row
\* with a NaN market_cap when there is none.
RECURSIVE caps_at(_, _)
caps_at(market_caps, ts) ==
    IF market_caps = <<>> THEN <<>>
    ELSE (IF Head(market_caps)[1] = ts THEN <<Head(market_caps)[2]>> ELSE <<>>)
         \o caps_at(Tail(market_caps), ts)

merge_row(p, market_caps) ==
    LET m == caps_at(market_caps, p[1])
    IN  IF m = <<>>
        THEN <<[ts |-> p[1], price |-> p[2], market_cap |-> NaN, Date |-> p[1]]>>
        ELSE [i \in 1..Len(m) |->
                 [ts |-> p[1], price |-> p[2], market_cap |-> m[i], Date |-> p[1]]]

\* the left frame's row order is kept
RECURSIVE merge_left(_, _)
merge_left(prices, market_caps) ==
    IF prices = <<>> THEN <<>>
    ELSE merge_row(Head(prices), market_caps) \o merge_left(Tail(prices), market_caps)

\* get_market_chart (44-56).  Date is pd.to_datetime(ts, unit="ms"): the
\* instant ts names, kept here as the number of milliseconds.
get_market_chart(coin_id, days, resp) ==
    LET js == HttpJson(resp)
    IN  IF js.kind = "raise" THEN js
        ELSE IF js.val.type # "object" THEN Raise("AttributeError")
        ELSE LET prices      == json_get(js.val, "prices", <<>>)
                 market_caps == json_get(js.val, "market_caps", <<>>)
                 rows        == merge_left(prices, market_caps)
             IN  Return(Frame(IF rows = <<>> THEN <<"ts", "price", "market_cap">>
                              ELSE <<"ts", "price", "market_cap", "Date">>, rows))

\* get_global_data (58-63): data.market_cap_percentage.btc, None when a level
\* is missing.  `depth` says how many of the three levels the body has.
get_global_data(resp) ==
    LET js == HttpJson(resp)
    IN  IF js.kind = "raise" THEN js
        ELSE IF js.val.type # "object" THEN Raise("AttributeError")
        ELSE Return([btc_dom |-> IF js.val.depth = 3 THEN js.val.btc ELSE None])

\* get_fear_greed (65-77): everything is inside try; any exception, and an
\* empty data list, end in the NaN default.
fear_greed_try(resp) ==
    LET js == HttpJson(resp)
    IN  IF js.kind = "raise" THEN js
        ELSE IF js.val.type # "object" THEN Raise("AttributeError")
        ELSE LET data == json_get(js.val, "data", <<>>)
             IN  IF data = <<>> THEN Raise("no data")
                 ELSE IF ~floatOk(data[1].value) THEN Raise("ValueError")
                 ELSE Return([value |-> float(data[1].value),
                              classification |-> data[1].value_classification])

get_fear_greed(resp) ==
    LET r == fear_greed_try(resp)
    IN  IF r.kind = "raise" THEN Return([value |-> NaN, classification |-> ""]) ELSE r

RECURSIVE SumVolume(_)
SumVolume(tickers) ==
    IF tickers = <<>> THEN 0 ELSE Head(tickers).volume + SumVolume(Tail(tickers))

\* round(x, 2) of a non-negative n/d, ties to even
Round2(n, d) ==
    LET q == (n * 100) \div d
        r == (n * 100) % d
    IN  IF 2 * r < d THEN Rat(q, 100)
        ELSE IF 2 * r > d THEN Rat(q + 1, 100)
        ELSE Rat(IF q % 2 = 0 THEN q ELSE q + 1, 100)

TICKER_COLUMNS == <<"Exchange", "Pair", "Price", "Volume_24h", "Liquidity",
                    "Trade URL", "Volume %">>

\* get_market_tickers (79-100)
get_market_tickers(coin_id, resp) ==
    LET js == HttpJson(resp)
    IN  IF js.kind = "raise" THEN js
        ELSE IF js.val.type # "object" THEN Raise("AttributeError")
        ELSE LET tickers   == json_get(js.val, "tickers", <<>>)
                 total_vol == SumVolume(tickers)
             IN  IF tickers = <<>> THEN Return(EmptyFrame)
                 ELSE Return(Frame(TICKER_COLUMNS,
                        [i \in 1..Len(tickers) |->
                           [Exchange   |-> tickers[i].market,
                            Pair       |-> <<tickers[i].base, tickers[i].target>>,
                            Price      |-> tickers[i].last,
                            Volume_24h |-> tickers[i].volume,
                            Liquidity  |-> tickers[i].trust_score,
                            Volume_pct |-> IF total_vol # 0
                                           THEN Round2(tickers[i].volume * 100, total_vol)
                                           ELSE Num(0)]]))

(***************************************************************************)
(* fetch_history (streamlit_app.py 46-63) without its cache.  yf.download  *)
(* returns a frame indexed by date, or raises.  The frame's columns are    *)
(* plain labels or (field, ticker) pairs; line 52-53 keeps the field, line *)
(* 54 title-cases it.  The rows stay in the order of the download.         *)
(***************************************************************************)
\* str.title of the labels yfinance uses
title(label) ==
    CASE label \in {"open", "Open", "OPEN"}       -> "Open"
      [] label \in {"high", "High", "HIGH"}       -> "High"
      [] label \in {"low", "Low", "LOW"}          -> "Low"
      [] label \in {"close", "Close", "CLOSE"}    -> "Close"
      [] label \in {"volume", "Volume", "VOLUME"} -> "Volume"
      [] label \in {"adj close", "Adj Close"}     -> "Adj Close"
      [] OTHER -> label

\* lines 52-54: column c of the download, flattened and title-cased
\* (a label is the tuple of its levels: one for a plain column index, two
\* for a (field, ticker) MultiIndex; only a MultiIndex is flattened)
history_column(c, multi) == title(IF multi THEN c[1] ELSE Head(c))

history_cell(bar, columns, name) ==
    IF name \in columns THEN Num(bar.v) ELSE NaN

REQUIRED_COLUMNS == <<"Open", "High", "Low", "Close", "Volume">>

fetch_history(ticker, start, end, resp) ==
    IF resp.net \in NetFailures \/ resp.body.type # "frame"
    THEN Return(EmptyCanon)
    ELSE LET b == resp.body
             titled  == [i \in 1..Len(b.columns) |-> history_column(b.columns[i], b.multi)]
             columns == Range(titled)
             missing == SelectSeq(REQUIRED_COLUMNS, LAMBDA c : c \notin columns)
         IN  Return(Frame(<<"Date">> \o titled \o missing,
                [i \in 1..Len(b.index) |->
                   [Date   |-> b.index[i].day,
                    Open   |-> history_cell(b.index[i], columns, "Open"),
                    High   |-> history_cell(b.index[i], columns, "High"),
                    Low    |-> history_cell(b.index[i], columns, "Low"),
                    Close  |-> history_cell(b.index[i], columns, "Close"),
                    Volume |-> history_cell(b.index[i], columns, "Volume")]]))

(***************************************************************************)
(* @st.cache_data(ttl=...).  Each decorated function has a cache of its    *)
(* own; an entry is stored under the hash of the call's arguments (a list  *)
(* is hashed element by element, in order) and carries the wall-clock time *)
(* at which it stops being served.  Nothing evicts in the background: an   *)
(* entry is judged against the clock when it is read.  A function that     *)
(* raises stores nothing and the exception reaches the caller.             *)
(***************************************************************************)
TTL_get_markets_for_cards == 300
TTL_get_market_chart      == 300
TTL_get_global_data       == 300
TTL_get_fear_greed        == 300
TTL_get_market_tickers    == 300
TTL_av_fetch_daily_series == 600
TTL_fetch_history         == 600

Functions == {"get_markets_for_cards", "get_market_chart", "get_global_data",
              "get_fear_greed", "get_market_tickers", "av_fetch_daily_series",
              "fetch_history"}

ttl(f) ==
    CASE f = "get_markets_for_cards" -> TTL_get_markets_for_cards
      [] f = "get_market_chart"      -> TTL_get_market_chart
      [] f = "get_global_data"       -> TTL_get_global_data
      [] f = "get_fear_greed"        -> TTL_get_fear_greed
      [] f = "get_market_tickers"    -> TTL_get_market_tickers
      [] f = "av_fetch_daily_series" -> TTL_av_fetch_daily_series
      [] f = "fetch_history"         -> TTL_fetch_history

\* The value key of a call: its arguments, positionally and in order.
value_key(args) == args

\* a cache without ttl: an entry, once stored, is served for ever
Fresh_NeverExpires(c, key, t) == key \in DOMAIN c

\* a function without the decorator: nothing is ever served from a cache
Fresh_Uncached(c, key, t) == FALSE

\* An entry is served while the clock is before its expiry.
Fresh(c, key, t) == key \in DOMAIN c /\ t < c[key].expiresAt

\* cache.write_result: the whole entry is replaced.
write_result(c, key, value, f, t) ==
    (key :> [value |-> value, expiresAt |-> t + ttl(f)]) @@ c

EmptyCache == [k \in {} |-> 0]

(***************************************************************************)
(* Values the variables of a specification that does not use them hold.    *)
(***************************************************************************)
NoResult == [kind |-> "none", val |-> EmptyFrame, exc |-> "none"]
NoResp   == [net |-> "none", status |-> 0, body |-> [type |-> "none"]]

CacheIdle ==
    /\ fn = "none" /\ cache = EmptyCache /\ lock = EmptyCache /\ now = 0
    /\ calls = EmptyCache /\ pc = <<>> /\ req = <<>> /\ ret = NoResult
    /\ joined = <<>>

FetchIdle ==
    /\ fPhase = "ready" /\ fFn = "none" /\ fArgs = <<>>
    /\ fResp = NoResp /\ fResult = NoResult

PageIdle ==
    /\ secrets = "none" /\ environ = "none" /\ assets = <<>> /\ days_back = "none"
    /\ pagePc = "none" /\ API_KEY = [some |-> FALSE, s |-> <<>>] /\ warned = FALSE /\ idx = 0
    /\ series_by_asset = <<>> /\ snapRows = <<>> /\ avRequests = 0
    /\ shown = "none"

(***************************************************************************)
(* SpecDispatch: av_fetch_daily_series applied to every symbol.            *)
(***************************************************************************)
Alphabet == {"A", "-", "U", "S", "D"}
Symbols  == UNION {[1..n -> Alphabet] : n \in 0..MaxSymLen}

AvVals(naming, c) ==
    [naming |-> naming, Open |-> NumStr(c), High |-> NumStr(c), Low |-> NumStr(c),
     Close |-> NumStr(c), Volume |-> NumStr(c)]

AvBody(tsKey, series) == [type |-> "object", tsKey |-> tsKey, series |-> series]
Http(status, body) == [net |-> "ok", status |-> status, body |-> body]
NetFail(kind) == [net |-> kind, status |-> 0, body |-> [type |-> "none"]]

DispatchResponses ==
    {NetFail("timeout"),
     Http(200, AvBody("crypto", <<[date |-> DateStr(2), vals |-> AvVals("crypto", 1)],
                                  [date |-> DateStr(1), vals |-> AvVals("crypto", 2)]>>))}

DispatchKey == [some |-> TRUE, s |-> <<"K">>]

InitDispatch == CacheIdle /\ PageIdle /\ FetchIdle

Dispatch(symbol, resp) ==
    /\ fPhase = "ready"
    /\ fPhase' = "done"
    /\ fFn' = "av_fetch_daily_series"
    /\ fArgs' = [symbol |-> symbol, api_key |-> DispatchKey]
    /\ fResp' = resp
    /\ fResult' = [request |-> av_params(symbol, DispatchKey),
                   sent    |-> av_requests(symbol, DispatchKey),
                   out     |-> av_fetch_daily_series(symbol, DispatchKey, resp)]
    /\ UNCHANGED <<cacheVars, pageVars>>

NextDispatch ==
    /\ fPhase = "ready"
    /\ \E symbol \in Symbols, resp \in DispatchResponses : Dispatch(symbol, resp)

SpecDispatch == InitDispatch /\ [][NextDispatch]_vars

\* index of the last hyphen of s (0 when there is none)
LastHyphen(s) ==
    IF \E i \in 1..Len(s) : s[i] = HYPHEN
    THEN CHOOSE i \in 1..Len(s) : s[i] = HYPHEN /\ \A j \in (i + 1)..Len(s) : s[j] # HYPHEN
    ELSE 0

\* C9: a symbol ending in "-USD" goes to the crypto endpoint with base = the
\* text before its last hyphen and quote = the text after it, also when the
\* base contains a hyphen; any other symbol goes to the equity endpoint
\* unchanged; exactly one request, on exactly one route, is sent per call.
C9_DispatchOnLastHyphen ==
    fPhase = "done" =>
        LET s == fArgs.symbol
            r == fResult.request
            h == LastHyphen(s)
        IN  /\ fResult.sent = 1
            /\ IF endswith(s, USD_SUFFIX)
               THEN /\ r.route = "crypto"
                    /\ r.symbol = SubSeq(s, 1, h - 1)
                    /\ r.market = SubSeq(s, h + 1, Len(s))
               ELSE /\ r.route = "equity"
                    /\ r.symbol = s

\* C9, the case the code does reach: a plain base is split correctly.
C9_PlainBaseRouted ==
    /\ fPhase = "done"
    /\ fArgs.symbol = <<"A", "-", "U", "S", "D">>
    /\ fResult.request.route = "crypto"
    /\ fResult.request.symbol = <<"A">>
    /\ fResult.request.market = <<"U", "S", "D">>

(***************************************************************************)
(* SpecStocks: pages/Crypto_Stocks.py, one run of the script.              *)
(*                                                                         *)
(* st.secrets is a Mapping whose lookup parses .streamlit/secrets.toml     *)
(* first.  With no secrets file at all the parse raises FileNotFoundError  *)
(* (StreamlitSecretNotFoundError in later releases, a subclass), which     *)
(* Mapping.get does not catch: it only turns the KeyError of a missing key *)
(* into None.  os.environ.get returns None for an unset variable.          *)
(***************************************************************************)
\* An optional string: None, or a string (possibly empty).
PyNone == [some |-> FALSE, s |-> <<>>]
Str(s) == [some |-> TRUE, s |-> s]

SecretsStates == {"nofile", "nokey", "empty", "key"}
EnvironStates == {"unset", "empty", "key"}

\* st.secrets.get("ALPHAVANTAGE_API_KEY")
secrets_get(store) ==
    CASE store = "nofile" -> Raise("FileNotFoundError")
      [] store = "nokey"  -> Return(PyNone)
      [] store = "empty"  -> Return(Str(<<>>))
      [] store = "key"    -> Return(Str(<<"S">>))

\* os.environ.get("ALPHAVANTAGE_API_KEY")
environ_get(env) ==
    CASE env = "unset" -> PyNone
      [] env = "empty" -> Str(<<>>)
      [] env = "key"   -> Str(<<"E">>)

\* truth value of None, "" and a non-empty string
truthy(x) == x.some /\ x.s # <<>>

\* a or b
Or(a, b) == IF truthy(a) THEN a ELSE b

BTC_USD == <<"B", "T", "C", "-", "U", "S", "D">>
ETH_USD == <<"E", "T", "H", "-", "U", "S", "D">>
AAPL    == <<"A", "A", "P", "L">>
MSFT    == <<"M", "S", "F", "T">>
GOOGL   == <<"G", "O", "O", "G", "L">>
AMZN    == <<"A", "M", "Z", "N">>
ASSET_OPTIONS == {BTC_USD, ETH_USD, AAPL, MSFT, GOOGL, AMZN}

MaxAssets == 2      \* assets selected in one render

\* selections of the multiselect: distinct options, in the order picked
Selections ==
    {sel \in UNION {[1..n -> ASSET_OPTIONS] : n \in 0..MaxAssets} :
        \A i, j \in 1..Len(sel) : i # j => sel[i] # sel[j]}

DAYS_MAP == [w1 |-> 7, m1 |-> 30, m3 |-> 90]
DaysBack == {"w1", "m1", "m3"}

\* the calendar day of a clock value; the clock starts on day MaxDay
DayOf(t) == MaxDay + (t \div 86400)

StocksResponses ==
    {NetFail("timeout"),
     Http(200, [type |-> "nonjson"]),
     Http(200, AvBody("none", <<>>)),
     Http(200, AvBody("crypto", <<[date |-> DateStr(2), vals |-> AvVals("crypto", 2)],
                                  [date |-> DateStr(1), vals |-> AvVals("crypto", 1)]>>)),
     Http(200, AvBody("equity", <<[date |-> DateStr(3), vals |-> AvVals("equity", 1)]>>))}

InitStocks ==
    /\ CacheIdle /\ FetchIdle
    /\ secrets \in SecretsStates
    /\ environ \in EnvironStates
    /\ assets \in Selections
    /\ days_back \in DaysBack
    /\ pagePc = "start"
    /\ API_KEY = PyNone /\ warned = FALSE /\ idx = 1
    /\ series_by_asset = <<>> /\ snapRows = <<>> /\ avRequests = 0
    /\ shown = "none"

\* lines 13-15: API_KEY and the missing-key warning
PageStart ==
    /\ pagePc = "start"
    /\ LET s == secrets_get(secrets)
       IN  IF s.kind = "raise"
           THEN /\ pagePc' = "raised"
                /\ UNCHANGED <<API_KEY, warned>>
           ELSE /\ API_KEY' = Or(s.val, environ_get(environ))
                /\ warned' = ~truthy(API_KEY')
                /\ pagePc' = IF assets = <<>> THEN "render" ELSE "loop"
    /\ UNCHANGED <<cacheVars, fetchVars, secrets, environ, assets, days_back, idx,
                   series_by_asset, snapRows, avRequests, shown>>

\* The decorated av_fetch_daily_series called by the only session there is:
\* a hit returns the stored frame, a miss runs the body and stores its result.
av_cached(c, t, symbol, api_key, resp) ==
    LET key == value_key(<<symbol, api_key>>)
    IN  IF Fresh(c, key, t)
        THEN [df |-> c[key].value, cache |-> c, sent |-> 0]
        ELSE LET r == av_fetch_daily_series(symbol, api_key, resp)
             IN  [df |-> r.val,
                  cache |-> write_result(c, key, r.val, "av_fetch_daily_series", t),
                  sent |-> av_requests(symbol, api_key)]

\* line 103: df = av_fetch_daily_series(t, API_KEY) if API_KEY else pd.DataFrame()
stocks_df(c, t, symbol, api_key, resp) ==
    IF truthy(api_key) THEN av_cached(c, t, symbol, api_key, resp)
    ELSE [df |-> EmptyFrame, cache |-> c, sent |-> 0]

\* lines 102-106: one iteration of the snapshot loop
PageLoop(resp) ==
    /\ pagePc = "loop"
    /\ LET t == assets[idx]
           got == stocks_df(cache, now, t, API_KEY, resp)
           snap == compute_snapshot_from_series(got.df)
       IN  /\ cache' = got.cache
           /\ avRequests' = avRequests + got.sent
           /\ series_by_asset' = Append(series_by_asset, [asset |-> t, df |-> got.df])
           /\ snapRows' = Append(snapRows,
                  [Asset_Name |-> t, Current_Price |-> snap.Current_Price,
                   Pct_Change |-> snap.Pct_Change])
    /\ idx' = idx + 1
    /\ pagePc' = IF idx = Len(assets) THEN "render" ELSE "loop"
    /\ UNCHANGED <<fn, lock, now, calls, pc, req, ret, joined, fetchVars,
                   secrets, environ, assets, days_back, API_KEY, warned, shown>>

\* lines 129-131: the rows of df inside [start_date, end_date]
RECURSIVE in_range(_, _, _)
in_range(rows, start_date, end_date) ==
    IF rows = <<>> THEN <<>>
    ELSE (IF Head(rows).Date >= start_date /\ Head(rows).Date <= end_date
          THEN <<[Date |-> Head(rows).Date, Close |-> Head(rows).Close]>>
          ELSE <<>>) \o in_range(Tail(rows), start_date, end_date)

\* lines 125-132: series_list
RECURSIVE series_list(_, _, _)
series_list(series, start_date, end_date) ==
    IF series = <<>> THEN <<>>
    ELSE (IF ~empty(Head(series).df)
          THEN <<[Asset |-> Head(series).asset,
                  rows  |-> in_range(Head(series).df.rows, start_date, end_date)]>>
          ELSE <<>>) \o series_list(Tail(series), start_date, end_date)

\* lines 108-140: the snapshot table and the trend chart
PageRender ==
    /\ pagePc = "render"
    /\ LET end_date   == DayOf(now)
           start_date == end_date - DAYS_MAP[days_back]
           sl         == series_list(series_by_asset, start_date, end_date)
       IN  shown' = [table |-> IF snapRows # <<>> THEN "dataframe" ELSE "info",
                     chart |-> IF sl # <<>> THEN "plotly" ELSE "info",
                     series |-> sl]
    /\ pagePc' = "done"
    /\ UNCHANGED <<cacheVars, fetchVars, secrets, environ, assets, days_back, API_KEY,
                   warned, idx, series_by_asset, snapRows, avRequests>>

NextStocks ==
    \/ PageStart
    \/ \E resp \in StocksResponses : PageLoop(resp)
    \/ PageRender

SpecStocks == InitStocks /\ [][NextStocks]_vars

\* the key is in neither the secrets store nor the environment
KeyAbsent == secrets \in {"nofile", "nokey"} /\ environ = "unset"

\* C6: with the API key absent, every render sends no request to the
\* key-gated provider, gives every selected asset an empty series and a
\* NaN snapshot, shows the missing-key warning and completes without raising.
C6_NoKeyDegrades ==
    KeyAbsent =>
        /\ pagePc # "raised"
        /\ avRequests = 0
        /\ pagePc \in {"loop", "render", "done"} => warned
        /\ \A i \in 1..Len(snapRows) :
               isnan(snapRows[i].Current_Price) /\ isnan(snapRows[i].Pct_Change)
        /\ \A i \in 1..Len(series_by_asset) : empty(series_by_asset[i].df)
        /\ pagePc = "done" =>
               /\ Len(snapRows) = Len(assets)
               /\ shown.chart = "info"

\* C6, the part the code does deliver: a secrets file without the key.
C6_NoKeyInFileDegrades ==
    /\ secrets = "nokey" /\ environ = "unset" /\ pagePc = "done"
    /\ Len(assets) = MaxAssets
    /\ warned /\ avRequests = 0 /\ shown.chart = "info"

(***************************************************************************)
(* SpecFetch: each fetch function, and compute_snapshot_from_series,       *)
(* applied once to every input of a bounded set.                           *)
(***************************************************************************)
SeqsUpTo(S, n) == UNION {[1..k -> S] : k \in 0..n}

\* sequences of at most n elements of S with pairwise different Key
DistinctSeqs(S, n, Key(_)) ==
    {q \in SeqsUpTo(S, n) : \A i, j \in 1..Len(q) : i # j => Key(q[i]) # Key(q[j])}

Days == 1..MaxDay

\* outcomes every HTTP fetch can meet: no response, or a body that is not JSON
Failures ==
    {NetFail("timeout"), NetFail("connfail"),
     Http(200, [type |-> "nonjson"]), Http(503, [type |-> "nonjson"])}

EmptyList   == [type |-> "list", keys |-> {}, items |-> <<>>]
EmptyObject == [type |-> "object", keys |-> {}, depth |-> 0, tsKey |-> "none",
                series |-> <<>>]
\* a JSON error object such as {"status": {"error_code": 429}}
ErrorObject == [type |-> "object", keys |-> {"status"}, depth |-> 0, tsKey |-> "none",
                series |-> <<>>]

EmptyBodies == {Http(200, EmptyList), Http(200, EmptyObject), Http(429, ErrorObject)}

Coin(id, sym, spark) ==
    [id |-> id, symbol |-> sym, name |-> id, current_price |-> Num(1),
     price_change_percentage_24h |-> Num(0), sparkline_in_7d |-> spark]

Coins == {Coin("bitcoin", "btc", [isdict |-> TRUE, price |-> <<Num(1), Num(2)>>]),
          Coin("ethereum", "eth", [isdict |-> FALSE, price |-> <<>>])}

CardKeySets ==
    {{"id", "symbol", "name", "current_price", "price_change_percentage_24h",
      "sparkline_in_7d"},
     {"id", "symbol", "name", "current_price", "price_change_percentage_24h"},
     {"id", "symbol", "current_price"}}

CardResponses ==
    Failures \cup EmptyBodies \cup
    {Http(200, [type |-> "list", keys |-> ks, items |-> items]) :
        ks \in CardKeySets, items \in SeqsUpTo(Coins, 2) \ {<<>>}}

IdLists == {<<"bitcoin", "ethereum">>, <<"ethereum", "bitcoin">>}

Points(offset) == DistinctSeqs({<<ts, Num(ts + offset)>> : ts \in Days}, MaxBars,
                               LAMBDA p : p[1])

ChartResponses ==
    Failures \cup EmptyBodies \cup
    {Http(200, [type |-> "object", keys |-> ks, prices |-> ps, market_caps |-> ms]) :
        ks \in {{"prices", "market_caps"}, {"prices"}},
        ps \in Points(0), ms \in Points(1)}

GlobalResponses ==
    Failures \cup EmptyBodies \cup
    {Http(200, [type |-> "object", keys |-> {"data"}, depth |-> dp, btc |-> Num(50)]) :
        dp \in 1..3}

FloatStrings == {Absent, NanStr, BadStr} \cup {NumStr(v) : v \in 0..MaxClose}

FearGreedResponses ==
    Failures \cup EmptyBodies \cup
    {Http(200, [type |-> "object", keys |-> {"data"},
                data |-> <<[value |-> v, value_classification |-> "Fear"]>>]) :
        v \in FloatStrings} \cup
    {Http(200, [type |-> "object", keys |-> {"data"}, data |-> <<>>])}

Ticker(market, volume) ==
    [market |-> market, base |-> "BTC", target |-> "USD", last |-> Num(1),
     volume |-> volume, trust_score |-> "green", trade_url |-> ""]

TickerResponses ==
    Failures \cup EmptyBodies \cup
    {Http(200, [type |-> "object", keys |-> {"tickers"}, tickers |-> ts]) :
        ts \in SeqsUpTo({Ticker(m, v) : m \in {"Binance", "Kraken"}, v \in {0, 1, 2}}, 2)}

AvEntries(naming) ==
    {[date |-> dt, vals |-> [AvVals(naming, 1) EXCEPT !.Close = c]] :
        dt \in {DateStr(day) : day \in Days} \cup {BadDate},
        c \in FloatStrings}

AvResponses ==
    Failures \cup EmptyBodies \cup
    UNION {{Http(200, AvBody(k, series)) :
               series \in DistinctSeqs(AvEntries(k), 2, LAMBDA e : e.date)} :
           k \in {"crypto", "equity"}}

\* symbols given to av_fetch_daily_series: the page's own, and one whose
\* base holds a hyphen
FetchSymbols == {BTC_USD, AAPL, <<"A", "-", "B", "-", "U", "S", "D">>}

HistoryColumnSets ==
    {<<"Open", "High", "Low", "Close", "Adj Close", "Volume">>,
     <<"open", "high", "low", "close", "volume">>,
     <<"Close">>,
     <<>>}

HistoryFrames ==
    {[type |-> "frame", multi |-> FALSE,
      columns |-> [i \in 1..Len(cols) |-> <<cols[i]>>], index |-> ix] :
        cols \in HistoryColumnSets,
        ix \in DistinctSeqs({[day |-> dy, v |-> dy] : dy \in Days}, MaxBars,
                            LAMBDA b : b.day)}
    \cup
    {[type |-> "frame", multi |-> TRUE,
      columns |-> [i \in 1..Len(cols) |-> <<cols[i], "LE=F">>], index |-> ix] :
        cols \in HistoryColumnSets,
        ix \in DistinctSeqs({[day |-> dy, v |-> dy] : dy \in Days}, 2,
                            LAMBDA b : b.day)}

HistoryResponses ==
    {NetFail("timeout")} \cup {Http(200, f) : f \in HistoryFrames}

Closes == {NaN} \cup {Num(v) : v \in 0..MaxClose}

SnapshotFrames ==
    {EmptyFrame, EmptyCanon} \cup
    {Frame(CANON, [i \in 1..Len(cs) |->
                     [Date |-> i, Open |-> NaN, High |-> cs[i], Low |-> cs[i],
                      Close |-> cs[i], Volume |-> Num(1)]]) :
        cs \in SeqsUpTo(Closes, MaxBars) \ {<<>>}}

InitFetch == CacheIdle /\ PageIdle /\ FetchIdle

Applied(f, args, resp, result) ==
    /\ fPhase = "ready"
    /\ fPhase' = "done"
    /\ fFn' = f
    /\ fArgs' = args
    /\ fResp' = resp
    /\ fResult' = result
    /\ UNCHANGED <<cacheVars, pageVars>>

F_get_markets_for_cards ==
    /\ fPhase = "ready"
    /\ \E ids \in IdLists, resp \in CardResponses :
        Applied("get_markets_for_cards", ids, resp, get_markets_for_cards(ids, resp))

F_get_market_chart ==
    /\ fPhase = "ready"
    /\ \E resp \in ChartResponses :
        Applied("get_market_chart", <<"bitcoin", 7>>, resp,
                get_market_chart("bitcoin", 7, resp))

F_get_global_data ==
    /\ fPhase = "ready"
    /\ \E resp \in GlobalResponses :
        Applied("get_global_data", <<>>, resp, get_global_data(resp))

F_get_fear_greed ==
    /\ fPhase = "ready"
    /\ \E resp \in FearGreedResponses :
        Applied("get_fear_greed", <<>>, resp, get_fear_greed(resp))

F_get_market_tickers ==
    /\ fPhase = "ready"
    /\ \E resp \in TickerResponses :
        Applied("get_market_tickers", <<"bitcoin">>, resp,
                get_market_tickers("bitcoin", resp))

F_av_fetch_daily_series ==
    /\ fPhase = "ready"
    /\ \E symbol \in FetchSymbols, resp \in AvResponses :
        Applied("av_fetch_daily_series", <<symbol, DispatchKey>>, resp,
                av_fetch_daily_series(symbol, DispatchKey, resp))

F_fetch_history ==
    /\ fPhase = "ready"
    /\ \E resp \in HistoryResponses :
        Applied("fetch_history", <<"LE=F", 0, MaxDay>>, resp,
                fetch_history("LE=F", 0, MaxDay, resp))

F_compute_snapshot_from_series ==
    /\ fPhase = "ready"
    /\ \E df \in SnapshotFrames :
        Applied("compute_snapshot_from_series", df, NoResp,
                Return(compute_snapshot_from_series(df)))

NextFetch ==
    \/ F_get_markets_for_cards
    \/ F_get_market_chart
    \/ F_get_global_data
    \/ F_get_fear_greed
    \/ F_get_market_tickers
    \/ F_av_fetch_daily_series
    \/ F_fetch_history
    \/ F_compute_snapshot_from_series

SpecFetch == InitFetch /\ [][NextFetch]_vars

\* rows in ascending Date order
SortedByDate(rows) ==
    \A i \in 1..(Len(rows) - 1) : rows[i].Date <= rows[i + 1].Date

\* C3: whatever the upstream does (timeout, connection failure, non-2xx
\* status, malformed or non-JSON body), a fetch function returns a value to
\* the page; no exception leaves it.
C3_NoExceptionLeavesFetch ==
    (fPhase = "done" /\ fFn \in Functions) => fResult.kind = "value"

\* C3, where the code does absorb the failure: the three functions that wrap
\* their body in try / except.
C3_GuardedFetchAbsorbs ==
    /\ fPhase = "done"
    /\ fFn \in {"av_fetch_daily_series", "fetch_history", "get_fear_greed"}
    /\ fResp.net \in NetFailures
    /\ fResult.kind = "value"

\* the empty payloads the claim names, per function
EmptyPayload(f, resp) ==
    /\ resp.net = "ok"
    /\ \/ f = "get_markets_for_cards" /\ resp.body = EmptyList
       \/ f \in {"get_market_chart", "get_market_tickers"} /\ resp.body = EmptyObject
       \/ f = "av_fetch_daily_series" /\ resp.body = EmptyObject

\* C7: an empty raw payload ([] for get_markets_for_cards, {} for
\* get_market_chart and get_market_tickers, a body without a time-series key
\* for av_fetch_daily_series) gives an empty result, zero rows, not an error.
C7_EmptyPayloadEmptyResult ==
    (fPhase = "done" /\ EmptyPayload(fFn, fResp)) =>
        (fResult.kind = "value" /\ Len(fResult.val.rows) = 0)

\* C7, a case the code handles: {} from the chart endpoint
C7_EmptyObjectEmptyChart ==
    /\ fPhase = "done" /\ fFn = "get_market_chart"
    /\ fResp.net = "ok" /\ fResp.body = EmptyObject
    /\ fResult.kind = "value" /\ Len(fResult.val.rows) = 0

\* the percent change the claim states, computed from the closes alone
ClaimedPct(rows) ==
    LET n == Len(rows)
    IN  IF n < 2 THEN NaN
        ELSE LET last == rows[n].Close
                 prev == rows[n - 1].Close
             IN  IF prev.k # "num" \/ prev.n = 0 THEN NaN
                 ELSE IF last.k # "num" THEN NaN
                 ELSE Rat((last.n * prev.d - prev.n * last.d) * 100 * prev.d,
                          last.d * prev.d * prev.n)

\* C8: the percent change of compute_snapshot_from_series is
\* (last - prev) / prev * 100 when there are at least 2 bars and prev is
\* neither 0 nor NaN, and NaN in every other case.
C8_PercentChange ==
    (fPhase = "done" /\ fFn = "compute_snapshot_from_series") =>
        fResult.val.Pct_Change = ClaimedPct(fArgs.rows)

\* C8, the regular case: two bars, prev not 0 and not NaN
C8_RegularChange ==
    /\ fPhase = "done" /\ fFn = "compute_snapshot_from_series"
    /\ Len(fArgs.rows) = 2
    /\ fArgs.rows[1].Close = Num(1) /\ fArgs.rows[2].Close = Num(2)
    /\ fResult.val.Pct_Change = Num(100)

\* C10: every series returned by av_fetch_daily_series, fetch_history and
\* get_market_chart is in ascending date order whatever order the upstream
\* delivered, and sorting it again changes nothing.
C10_SortedByDate ==
    (/\ fPhase = "done"
     /\ fFn \in {"av_fetch_daily_series", "fetch_history", "get_market_chart"}
     /\ fResult.kind = "value") =>
        /\ SortedByDate(fResult.val.rows)
        /\ SortRows(fResult.val.rows) = fResult.val.rows

\* C10, where the code does sort: av_fetch_daily_series on a payload whose
\* dates arrive descending
C10_AvSortsDescendingPayload ==
    /\ fPhase = "done" /\ fFn = "av_fetch_daily_series"
    /\ fResp.net = "ok"
    /\ "series" \in DOMAIN fResp.body
    /\ Len(fResp.body.series) = 2
    /\ fResp.body.series[1].date.day > fResp.body.series[2].date.day
    /\ Len(fResult.val.rows) = 2
    /\ SortedByDate(fResult.val.rows)

(***************************************************************************)
(* Spec: sessions calling one decorated function concurrently.             *)
(*                                                                         *)
(* A call reads the function's cache first.  On a miss it takes the        *)
(* compute lock of its value key, reads the cache again (another session   *)
(* may have stored the value meanwhile), and only then runs the function   *)
(* body, whose first act is the upstream request; the body's return value  *)
(* is stored and the lock released.  When the body raises, nothing is      *)
(* stored, the lock is released and the exception goes to the caller.      *)
(***************************************************************************)
Sessions == 1..MaxSessions

\* the clock advances in steps of half the longer TTL
ClockStep == TTL_fetch_history \div 2

StocksKey == Str(<<"S">>)

\* argument tuples the sessions call the function with
ArgsOf(f) ==
    CASE f = "get_markets_for_cards" -> {<<ids>> : ids \in IdLists}
      [] f = "get_market_chart"      -> {<<"bitcoin", 7>>, <<"bitcoin", 30>>}
      [] f = "get_global_data"       -> {<<>>}
      [] f = "get_fear_greed"        -> {<<>>}
      [] f = "get_market_tickers"    -> {<<"bitcoin">>, <<"ethereum">>}
      [] f = "av_fetch_daily_series" -> {<<BTC_USD, StocksKey>>, <<AAPL, StocksKey>>}
      [] f = "fetch_history"         -> {<<"LE=F", 0, MaxDay>>, <<"GC=F", 0, MaxDay>>}

AllCardKeys == {"id", "symbol", "name", "current_price",
                "price_change_percentage_24h", "sparkline_in_7d"}

HistoryFrame(ix) ==
    [type |-> "frame", multi |-> TRUE,
     columns |-> <<<<"Close", "LE=F">>, <<"Volume", "LE=F">>>>,
     index |-> ix]

\* upstream outcomes a body can meet: a failure, and two different payloads
UpstreamOf(f) ==
    {NetFail("timeout")} \cup
    CASE f = "get_markets_for_cards" ->
             {Http(200, [type |-> "list", keys |-> AllCardKeys, items |-> items]) :
                 items \in {<<c>> : c \in Coins}}
      [] f = "get_market_chart" ->
             {Http(200, [type |-> "object", keys |-> {"prices"},
                         prices |-> <<<<ts, Num(ts)>>>>, market_caps |-> <<>>]) :
                 ts \in 1..2}
      [] f = "get_global_data" ->
             {Http(200, [type |-> "object", keys |-> {"data"}, depth |-> 3,
                         btc |-> Num(v)]) : v \in 1..2}
      [] f = "get_fear_greed" ->
             {Http(200, [type |-> "object", keys |-> {"data"},
                         data |-> <<[value |-> NumStr(v),
                                     value_classification |-> "Fear"]>>]) : v \in 1..2}
      [] f = "get_market_tickers" ->
             {Http(200, [type |-> "object", keys |-> {"tickers"},
                         tickers |-> <<Ticker("Binance", v)>>]) : v \in 1..2}
      [] f = "av_fetch_daily_series" ->
             {Http(200, AvBody(k, <<[date |-> DateStr(1), vals |-> AvVals(k, 1)]>>)) :
                 k \in {"crypto", "equity"}}
      [] f = "fetch_history" ->
             {Http(200, HistoryFrame(<<[day |-> dy, v |-> dy]>>)) : dy \in 1..2}

\* the undecorated function
Body(f, args, resp) ==
    CASE f = "get_markets_for_cards" -> get_markets_for_cards(args[1], resp)
      [] f = "get_market_chart"      -> get_market_chart(args[1], args[2], resp)
      [] f = "get_global_data"       -> get_global_data(resp)
      [] f = "get_fear_greed"        -> get_fear_greed(resp)
      [] f = "get_market_tickers"    -> get_market_tickers(args[1], resp)
      [] f = "av_fetch_daily_series" -> av_fetch_daily_series(args[1], args[2], resp)
      [] f = "fetch_history"         -> fetch_history(args[1], args[2], args[3], resp)

\* upstream requests one run of the body sends
RequestsOf(f, args) ==
    IF f = "av_fetch_daily_series" THEN av_requests(args[1], args[2]) ELSE 1

Calls(key) == IF key \in DOMAIN calls THEN calls[key] ELSE 0

\* outcome of a finished call, and how it came about
Outcome(r, via) == [kind |-> r.kind, val |-> r.val, exc |-> r.exc, via |-> via]
Pending == [kind |-> "none", val |-> EmptyFrame, exc |-> "none", via |-> "none"]

Init ==
    /\ FetchIdle /\ PageIdle
    /\ fn \in Functions
    /\ cache = EmptyCache
    /\ lock = EmptyCache
    /\ now = 0
    /\ calls = EmptyCache
    /\ pc = [s \in Sessions |-> "idle"]
    /\ req = [s \in Sessions |-> <<>>]
    /\ ret = Pending
    /\ joined = [s \in Sessions |-> FALSE]

\* some session is running the body for this key
Computing(key) == \E t \in Sessions : pc[t] = "computing" /\ value_key(req[t]) = key

\* A session calls the function: the first cache read.
Call(s, args) ==
    /\ pc[s] = "idle"
    /\ IF Fresh(cache, value_key(args), now)
       THEN /\ ret' = Outcome(Return(cache[value_key(args)].value), "hit")
            /\ UNCHANGED <<pc, req, joined>>
       ELSE /\ pc' = [pc EXCEPT ![s] = "waiting"]
            /\ req' = [req EXCEPT ![s] = args]
            /\ ret' = Pending
            /\ joined' = [joined EXCEPT ![s] = Computing(value_key(args))]
    /\ UNCHANGED <<fn, cache, lock, now, calls, fetchVars, pageVars>>

\* The session gets the key's compute lock and reads the cache again; on a
\* second miss it starts the body, which sends the upstream request.
Acquire(s) ==
    /\ pc[s] = "waiting"
    /\ value_key(req[s]) \notin DOMAIN lock
    /\ IF Fresh(cache, value_key(req[s]), now)
       THEN /\ ret' = Outcome(Return(cache[value_key(req[s])].value), "hit")
            /\ pc' = [pc EXCEPT ![s] = "idle"]
            /\ req' = [req EXCEPT ![s] = <<>>]
            /\ joined' = [joined EXCEPT ![s] = FALSE]
            /\ UNCHANGED <<lock, calls>>
       ELSE /\ Calls(value_key(req[s])) < MaxCalls
            /\ pc' = [pc EXCEPT ![s] = "computing"]
            /\ lock' = (value_key(req[s]) :> s) @@ lock
            /\ calls' = (value_key(req[s]) :>
                           Calls(value_key(req[s])) + RequestsOf(fn, req[s])) @@ calls
            /\ ret' = Pending
            /\ UNCHANGED <<req, joined>>
    /\ UNCHANGED <<fn, cache, now, fetchVars, pageVars>>

\* The upstream answers, the body finishes: its value is stored, or its
\* exception passed on; the lock is released either way.
Finish(s, resp) ==
    /\ pc[s] = "computing"
    /\ LET r == Body(fn, req[s], resp)
       IN  /\ cache' = IF r.kind = "value"
                       THEN write_result(cache, value_key(req[s]), r.val, fn, now)
                       ELSE cache
           /\ ret' = Outcome(r, "computed")
    /\ lock' = [k \in DOMAIN lock \ {value_key(req[s])} |-> lock[k]]
    /\ pc' = [pc EXCEPT ![s] = "idle"]
    /\ req' = [req EXCEPT ![s] = <<>>]
    /\ joined' = [joined EXCEPT ![s] = FALSE]
    /\ UNCHANGED <<fn, now, calls, fetchVars, pageVars>>

\* Time passes.  The cache is left alone: no entry is evicted in the
\* background.  (A call that is still waiting is no longer simultaneous with
\* the computation it met.)
Tick ==
    /\ now + ClockStep <= MaxTime
    /\ now' = now + ClockStep
    /\ joined' = [s \in Sessions |-> joined[s] /\ pc[s] = "computing"]
    /\ ret' = Pending
    /\ UNCHANGED <<fn, cache, lock, calls, pc, req, fetchVars, pageVars>>

DoCall == \E s \in Sessions : \E args \in ArgsOf(fn) : Call(s, args)
DoAcquire == \E s \in Sessions : Acquire(s)
DoFinish == \E s \in Sessions : \E resp \in UpstreamOf(fn) : Finish(s, resp)

Next ==
    \/ DoCall
    \/ DoAcquire
    \/ DoFinish
    \/ Tick

Spec == Init /\ [][Next]_vars


\* the TTLs as the specification states them: 300 s for the crypto
\* endpoints, 600 s for the equity and futures endpoints
ClaimedTTL(f) ==
    IF f \in {"av_fetch_daily_series", "fetch_history"} THEN 600 ELSE 300

\* the cache holds an entry for key whose expiry the clock has not reached
Unexpired(key) == key \in DOMAIN cache /\ now < cache[key].expiresAt

\* the cache holds an entry for key whose expiry the clock has reached
Expired(key) == key \in DOMAIN cache /\ now >= cache[key].expiresAt

\* C1: a call whose key has an unexpired entry (stored by an earlier call)
\* sends no upstream request and returns the stored value; and no body is
\* ever running for a key whose entry is unexpired, so the two calls
\* together run the body exactly once.
C1_HitWithinTTL ==
    /\ [](\A s \in Sessions : pc[s] = "computing" => ~Unexpired(value_key(req[s])))
    /\ [][\A s \in Sessions : \A args \in ArgsOf(fn) :
            (Call(s, args) /\ Unexpired(value_key(args))) =>
                /\ calls' = calls
                /\ cache' = cache
                /\ pc'[s] = "idle"
                /\ ret' = Outcome(Return(cache[value_key(args)].value), "hit")]_vars

\* C1: a second call has just been answered from the entry the first stored
C1_SecondCallHit ==
    /\ ret.via = "hit"
    /\ \E key \in DOMAIN cache :
          Calls(key) = 1 /\ Unexpired(key) /\ ret.val = cache[key].value

\* C2: of the calls that miss the cache for a key while its body is running,
\* none runs the body again: one invocation serves them all.
C2_OneComputePerStampede ==
    \A s \in Sessions : joined[s] => pc[s] # "computing"

\* C2: a call that joined a running computation, whose value is now stored
C2_StampedeCollapsed ==
    \E s \in Sessions :
        joined[s] /\ pc[s] = "waiting" /\ Unexpired(value_key(req[s]))

\* two id lists with the same elements
SameIds(k, args) == Range(k[1]) = Range(args[1])

\* C4: a call of get_markets_for_cards whose ids are those of an unexpired
\* entry, in any order, is a cache hit and sends no upstream request.
C4_PermutedIdsHit ==
    [][\A s \in Sessions : \A args \in ArgsOf(fn) :
          (/\ fn = "get_markets_for_cards"
           /\ Call(s, args)
           /\ \E k \in DOMAIN cache : SameIds(k, args) /\ now < cache[k].expiresAt) =>
              /\ ret'.via = "hit"
              /\ calls' = calls
              /\ pc'[s] = "idle"]_vars

\* C4: a call missed although the same ids, in the other order, are cached
C4_PermutedIdsMiss ==
    /\ fn = "get_markets_for_cards"
    /\ \E s \in Sessions : \E k \in DOMAIN cache :
          /\ pc[s] = "waiting"
          /\ k # value_key(req[s])
          /\ SameIds(k, req[s])
          /\ Unexpired(k)

CallsAfter(key) == IF key \in DOMAIN calls' THEN calls'[key] ELSE 0

\* C5: a call that finds its key's entry expired is not served from it and
\* runs the body again; the value the body returns replaces the entry as a
\* whole, with a new expiry one TTL (300 s crypto, 600 s equity / futures)
\* after the clock at that moment; whatever is served from the cache is the
\* value of an unexpired entry; and the passing of time alone never changes
\* the cache (expiry is decided when an entry is read).
C5_ExpiredRecomputes ==
    /\ [](ret.via = "hit" =>
             \E key \in DOMAIN cache : Unexpired(key) /\ ret.val = cache[key].value)
    /\ [][/\ \A s \in Sessions : \A args \in ArgsOf(fn) :
                (Call(s, args) /\ Expired(value_key(args))) =>
                    (pc'[s] = "waiting" /\ ret' = Pending /\ cache' = cache)
          /\ \A s \in Sessions :
                (Acquire(s) /\ Expired(value_key(req[s]))) =>
                    /\ pc'[s] = "computing"
                    /\ CallsAfter(value_key(req[s])) = Calls(value_key(req[s])) + 1
          /\ \A s \in Sessions : \A resp \in UpstreamOf(fn) :
                (Finish(s, resp) /\ ret'.kind = "value") =>
                    /\ cache'[value_key(req[s])] =
                           [value |-> ret'.val, expiresAt |-> now + ClaimedTTL(fn)]
                    /\ \A k \in DOMAIN cache \ {value_key(req[s])} : cache'[k] = cache[k]
          /\ (now' # now => cache' = cache)]_vars

\* C5: fetch_history was computed, expired, was computed again, and a call
\* in the new window has just been served the new entry
C5_ServedFromNewEntry ==
    /\ fn = "fetch_history"
    /\ ret.via = "hit"
    /\ \E key \in DOMAIN cache :
          /\ Calls(key) = 2
          /\ cache[key].expiresAt > ClaimedTTL(fn)
          /\ Unexpired(key)
          /\ ret.val = cache[key].value

\* C11: whenever the upstream call of a body fails, the outcome of that call
\* is stored under the call's key for one TTL (300 s crypto, 600 s equity /
\* futures) from that moment; with C1, every further call for the key within
\* that window is then answered from the cache and sends no upstream request.
C11_FailureAbsorbed ==
    [][\A s \in Sessions : \A resp \in UpstreamOf(fn) :
          (Finish(s, resp) /\ resp.net \in NetFailures) =>
              /\ value_key(req[s]) \in DOMAIN cache'
              /\ cache'[value_key(req[s])].expiresAt = now + ClaimedTTL(fn)
              /\ now < cache'[value_key(req[s])].expiresAt]_vars

\* C11, where the code does absorb: av_fetch_daily_series met a failing
\* upstream once, stored its empty frame, and a later call was served it
C11_EmptyFallbackServed ==
    /\ fn = "av_fetch_daily_series"
    /\ ret.via = "hit"
    /\ \E key \in DOMAIN cache :
          /\ Calls(key) = 1
          /\ Unexpired(key)
          /\ empty(cache[key].value)
          /\ ret.val = cache[key].value

(***************************************************************************)
(* SpecHistory: successive runs of src/streamlit_app.py (lines 124-172),   *)
(* all within one TTL window of fetch_history.  A run reads the sidebar    *)
(* and the time-range radio, reads the wall clock into end_date, derives   *)
(* start_date from it, and calls the cached fetch_history once per         *)
(* selected asset with (ticker, start_date, end_date).  st.cache_data      *)
(* hashes the two datetime arguments by value.  Successive runs read       *)
(* strictly later clock values; the model spaces them one second apart.    *)
(* Every asset of the sidebar has a ticker in TICKER_MAP, so the           *)
(* "if ticker else" branch of line 168 always takes the fetch.             *)
(***************************************************************************)
MaxRenders == 3

ASSET_TYPES == <<"Livestock", "Metal">>
LIVESTOCK_ASSETS == <<"Cattle", "Sheep", "Poultry">>
METAL_ASSETS == <<"Gold", "Silver", "Platinum">>

TICKER_MAP ==
    [Livestock |-> [Cattle |-> "LE=F", Sheep |-> "GF=F", Poultry |-> "HE=F"],
     Metal     |-> [Gold |-> "GC=F", Silver |-> "SI=F", Platinum |-> "PL=F"]]

TIME_RANGES ==
    ("1D" :> 1) @@ ("1W" :> 7) @@ ("1M" :> 30) @@ ("3M" :> 90) @@
    ("6M" :> 180) @@ ("1Y" :> 365)

\* timedelta(days=n), in seconds
timedelta(days) == days * 86400

\* the time-range labels the runs choose among
TimeLabels == {"1W", "1Y"}

specific_assets(asset_type) ==
    IF asset_type = "Livestock" THEN LIVESTOCK_ASSETS ELSE METAL_ASSETS

\* st.multiselect: no, one or two of the first two assets of the type
AssetSelections(asset_type) ==
    {sel \in SeqsUpTo({specific_assets(asset_type)[i] : i \in 1..2}, MaxAssets) :
        \A i, j \in 1..Len(sel) : i # j => sel[i] # sel[j]}

\* what yf.download answers during one run
HistoryUpstream == {NetFail("timeout"), Http(200, HistoryFrame(<<[day |-> 1, v |-> 1]>>))}

\* lines 163-172: one cached fetch_history call per selected asset
RECURSIVE history_loop(_, _, _, _, _, _, _)
history_loop(st, asset_type, selected, start_date, end_date, resp, t) ==
    IF selected = <<>> THEN st
    ELSE LET ticker == TICKER_MAP[asset_type][Head(selected)]
             key    == value_key(<<ticker, start_date, end_date>>)
             r      == fetch_history(ticker, start_date, end_date, resp)
             after  ==
                 IF Fresh(st.cache, key, t)
                 THEN [cache |-> st.cache, calls |-> st.calls,
                       ret |-> Outcome(Return(st.cache[key].value), "hit")]
                 ELSE [cache |-> IF r.kind = "value"
                                 THEN write_result(st.cache, key, r.val, "fetch_history", t)
                                 ELSE st.cache,
                       calls |-> (key :> (IF key \in DOMAIN st.calls
                                          THEN st.calls[key] ELSE 0) + 1) @@ st.calls,
                       ret |-> Outcome(r, "computed")]
         IN  history_loop(after, asset_type, Tail(selected), start_date, end_date, resp, t)

InitHistory ==
    /\ FetchIdle /\ PageIdle
    /\ fn = "fetch_history"
    /\ cache = EmptyCache
    /\ lock = EmptyCache
    /\ now = 0
    /\ calls = EmptyCache
    /\ pc = <<>>
    /\ req = <<>>
    /\ ret = Pending
    /\ joined = <<>>

\* one run of the script
Render(asset_type, selected_assets, time_label, resp) ==
    /\ now < MaxRenders
    /\ LET end_date   == now
           start_date == end_date - timedelta(TIME_RANGES[time_label])
           st == history_loop([cache |-> cache, calls |-> calls, ret |-> Pending],
                              asset_type, selected_assets, start_date, end_date,
                              resp, now)
       IN  /\ cache' = st.cache
           /\ calls' = st.calls
           /\ ret' = st.ret
    /\ now' = now + 1
    /\ UNCHANGED <<fn, lock, pc, req, joined, fetchVars, pageVars>>

NextHistory ==
    /\ now < MaxRenders
    /\ \E asset_type \in Range(ASSET_TYPES), time_label \in TimeLabels,
          resp \in HistoryUpstream :
          \E selected_assets \in AssetSelections(asset_type) :
              Render(asset_type, selected_assets, time_label, resp)

SpecHistory == InitHistory /\ [][NextHistory]_vars

\* an unexpired entry exists for this ticker and this length of window
RequestedWithinTTL(ticker, days) ==
    \E k \in DOMAIN cache :
        /\ k[1] = ticker
        /\ k[3] - k[2] = timedelta(days)
        /\ now < cache[k].expiresAt

\* C12: a run of the futures page that selects tickers and a time window for
\* which an earlier run, less than one TTL ago, already fetched, resolves to
\* the same cache keys and sends no upstream request.
C12_SameSelectionNoRequest ==
    [][\A asset_type \in Range(ASSET_TYPES), time_label \in TimeLabels,
          resp \in HistoryUpstream :
          \A selected_assets \in AssetSelections(asset_type) :
              (/\ Render(asset_type, selected_assets, time_label, resp)
               /\ \A i \in 1..Len(selected_assets) :
                     RequestedWithinTTL(TICKER_MAP[asset_type][selected_assets[i]],
                                        TIME_RANGES[time_label])) =>
                  calls' = calls]_vars

\* C12: two runs asked for the same ticker and the same window inside one
\* TTL window, and the cache holds a separate unexpired entry for each
C12_SameRequestTwoEntries ==
    \E k1, k2 \in DOMAIN cache :
        /\ k1 # k2
        /\ k1[1] = k2[1]
        /\ k1[3] - k1[2] = k2[3] - k2[2]
        /\ Unexpired(k1) /\ Unexpired(k2)

====
